---- MODULE Spec2Model ----
(***************************************************************************)
(* Model of health_checker.py: main() runs check_ec2_instances,            *)
(* check_cloudwatch_alarms, generate_summary and, when --output is given,  *)
(* save_report, in that order, and then prints "Health check complete!".   *)
(*                                                                         *)
(* Python dicts are records, lists are sequences, print() appends a tuple  *)
(* to the console, an exception that no handler catches ends the run in    *)
(* pc = "aborted".                                                         *)
(***************************************************************************)
EXTENDS Integers, Sequences, FiniteSets, TLC

VARIABLES
    pc,            \* position of main()
    region,        \* args.region
    output,        \* args.output
    ec2Outcome,    \* what ec2.describe_instances() did: returned or raised
    cwOutcome,     \* what cloudwatch.describe_alarms() did: returned or raised
    response,      \* the local "response" of the check that ran last
    instances,     \* main's local: the list check_ec2_instances returned
    alarms,        \* main's local: the list check_cloudwatch_alarms returned
    tally,         \* the locals of generate_summary once it has run
    summary,       \* main's local: the dict generate_summary returned
    console,       \* everything printed so far, in order
    apiCalls,      \* the provider operations invoked so far, in order
    openCalls,     \* number of open(filename, 'w') calls made
    ioError,       \* TRUE once open() has raised
    file           \* what json.dump wrote to the output file

vars == <<pc, region, output, ec2Outcome, cwOutcome, response,
          instances, alarms, tally, summary, console, apiCalls, openCalls,
          ioError, file>>

(***************************************************************************)
(* Bounds of the model.                                                    *)
(***************************************************************************)
MaxReservations == 2    \* reservations in one describe_instances response
MaxInstances == 2       \* instances in one response, over all reservations
MaxAlarms == 2          \* alarms in one describe_alarms response

(***************************************************************************)
(* Values that stand for "not there".                                      *)
(***************************************************************************)
None == "None"                    \* Python None (args.output not given)
NotCalled == "not_called"         \* the provider call has not been made
NoResponse == [absent |-> "response"]
NoTally == [absent |-> "tally"]
NoSummary == [absent |-> "summary"]
NoFile == [absent |-> "file"]

(***************************************************************************)
(* Command line.                                                           *)
(***************************************************************************)
DefaultRegion == "eu-west-1"
Regions == {DefaultRegion}
Outputs == {None, "", "report.json"}

\* a main() that has lost the "if args.output:" test
Truthy_Always(o) == TRUE

\* Python truthiness of args.output in "if args.output:"
Truthy(o) == o /= None /\ o /= ""

(***************************************************************************)
(* Provider data.                                                          *)
(***************************************************************************)
InstanceStateNames == {"running", "stopped", "shutting-down"}

EnvTag == [Key |-> "env", Value |-> "prod"]
WebTag == [Key |-> "Name", Value |-> "web"]
DbTag == [Key |-> "Name", Value |-> "db"]
TagLists == {<<EnvTag>>, <<EnvTag, WebTag, DbTag>>}

RawInstances ==
    {[InstanceId |-> "i-0abc", InstanceType |-> "t2.micro",
      State |-> [Name |-> s]] : s \in InstanceStateNames}
    \cup
    {[InstanceId |-> "i-0abc", InstanceType |-> "t2.micro",
      State |-> [Name |-> s], Tags |-> t] :
        s \in InstanceStateNames, t \in TagLists}

AlarmStateValues == {"OK", "ALARM", "INSUFFICIENT_DATA", "UNMAPPED"}

\* one alarm per state value; the OK one comes with an AlarmDescription
RawAlarms ==
    {[AlarmName |-> "cpu-high", StateValue |-> s,
      MetricName |-> "CPUUtilization"] : s \in AlarmStateValues \ {"OK"}}
    \cup
    {[AlarmName |-> "cpu-high", StateValue |-> "OK",
      MetricName |-> "CPUUtilization", AlarmDescription |-> "cpu above 80"]}

SeqsUpTo(S, n) == UNION {[1..k -> S] : k \in 0..n}

RECURSIVE Sum(_)
Sum(ns) == IF ns = <<>> THEN 0 ELSE Head(ns) + Sum(Tail(ns))

\* the instances of a response, put into reservations of the given sizes
RECURSIVE Reservations(_, _)
Reservations(insts, sizes) ==
    IF sizes = <<>> THEN <<>>
    ELSE <<[Instances |-> SubSeq(insts, 1, Head(sizes))]>>
         \o Reservations(SubSeq(insts, Head(sizes) + 1, Len(insts)), Tail(sizes))

\* the responses describe_instances can return: up to MaxInstances instances
\* in up to MaxReservations reservations
Ec2Responses ==
    UNION {{[Reservations |-> Reservations(insts, sizes)] :
               sizes \in {z \in SeqsUpTo(0..MaxInstances, MaxReservations) :
                             Sum(z) = Len(insts)}} :
           insts \in SeqsUpTo(RawInstances, MaxInstances)}

\* the responses describe_alarms can return
CwResponses == {[MetricAlarms |-> as] : as \in SeqsUpTo(RawAlarms, MaxAlarms)}

\* the exceptions the two checks catch
NoCredentialsError == "NoCredentialsError"
ClientError == "ClientError"
CaughtErrors == {NoCredentialsError, ClientError}
Returned == "returned"

\* e.response['Error']['Message'] of the ClientError the provider raises
ClientErrorMessage == "AccessDenied"

(***************************************************************************)
(* check_ec2_instances                                                     *)
(***************************************************************************)
Ec2StatusIcons ==
    [s \in {"running", "stopped", "pending", "stopping", "terminated"} |->
        CASE s = "running" -> "check"
          [] s = "stopped" -> "stop"
          [] s = "pending" -> "hourglass"
          [] s = "stopping" -> "hourglass"
          [] s = "terminated" -> "skull"]

\* status_icons.get(state, warning sign)
Ec2Icon(state) ==
    IF state \in DOMAIN Ec2StatusIcons THEN Ec2StatusIcons[state] ELSE "warning"

\* the tag loop without its break: the last 'Name' tag wins
RECURSIVE NameFromTags_LastWins(_, _)
NameFromTags_LastWins(tags, default) ==
    IF tags = <<>> THEN default
    ELSE NameFromTags_LastWins(Tail(tags),
                               IF Head(tags).Key = "Name" THEN Head(tags).Value
                               ELSE default)

\* the loop over instance.get('Tags', []): the first 'Name' tag wins
RECURSIVE NameFromTags(_, _)
NameFromTags(tags, default) ==
    IF tags = <<>> THEN default
    ELSE IF Head(tags).Key = "Name" THEN Head(tags).Value
    ELSE NameFromTags(Tail(tags), default)

TagsOf(instance) ==
    IF "Tags" \in DOMAIN instance THEN instance.Tags ELSE <<>>

InstanceInfo(instance) ==
    [instance_id |-> instance.InstanceId,
     instance_type |-> instance.InstanceType,
     state |-> instance.State.Name,
     name |-> NameFromTags(TagsOf(instance), "Unnamed")]

\* the inner loop: one record appended per instance of a reservation
RECURSIVE ReservationRecords(_)
ReservationRecords(insts) ==
    IF insts = <<>> THEN <<>>
    ELSE <<InstanceInfo(Head(insts))>> \o ReservationRecords(Tail(insts))

\* the outer loop over response['Reservations']
RECURSIVE NormalizeInstances(_)
NormalizeInstances(reservations) ==
    IF reservations = <<>> THEN <<>>
    ELSE ReservationRecords(Head(reservations).Instances)
         \o NormalizeInstances(Tail(reservations))

\* the two lines printed for one instance
InstanceLines(info) ==
    << <<"instance", Ec2Icon(info.state), info.name, info.instance_id>>,
       <<"instance_detail", info.instance_type, info.state>> >>

RECURSIVE InstanceOutput(_)
InstanceOutput(infos) ==
    IF infos = <<>> THEN <<>>
    ELSE InstanceLines(Head(infos)) \o InstanceOutput(Tail(infos))

Ec2Header == << <<"header", "EC2 INSTANCE STATUS">> >>

\* what check_ec2_instances prints after the header
Ec2Output(outcome, infos) ==
    IF outcome = NoCredentialsError
    THEN << <<"error", "AWS credentials not configured">>,
            <<"hint", "Run 'aws configure' to set up credentials">> >>
    ELSE IF outcome = ClientError
    THEN << <<"error", ClientErrorMessage>> >>
    ELSE InstanceOutput(infos)
         \o (IF infos = <<>>
             THEN << <<"info", "No EC2 instances found in this region.">> >>
             ELSE <<>>)

\* the list check_ec2_instances returns
Ec2Result(outcome, resp) ==
    IF outcome \in CaughtErrors THEN <<>>
    ELSE NormalizeInstances(resp.Reservations)

CheckEc2Instances ==
    /\ pc = "check_ec2"
    /\ \E outcome \in CaughtErrors \cup {Returned} :
       \E resp \in (IF outcome = Returned THEN Ec2Responses ELSE {NoResponse}) :
          /\ apiCalls' = Append(apiCalls, "ec2.describe_instances")
          /\ ec2Outcome' = outcome
          /\ response' = resp
          /\ instances' = Ec2Result(outcome, resp)
          /\ console' = console \o Ec2Header \o Ec2Output(outcome, instances')
    /\ pc' = "check_cloudwatch"
    /\ UNCHANGED <<region, output, cwOutcome, alarms, tally, summary,
                   openCalls, ioError, file>>

(***************************************************************************)
(* check_cloudwatch_alarms                                                 *)
(***************************************************************************)
CwStatusIcons ==
    [s \in {"OK", "ALARM", "INSUFFICIENT_DATA"} |->
        CASE s = "OK" -> "check"
          [] s = "ALARM" -> "siren"
          [] s = "INSUFFICIENT_DATA" -> "warning"]

CwIcon(state) ==
    IF state \in DOMAIN CwStatusIcons THEN CwStatusIcons[state] ELSE "question"

AlarmInfo(alarm) ==
    [name |-> alarm.AlarmName,
     state |-> alarm.StateValue,
     metric |-> alarm.MetricName,
     description |-> IF "AlarmDescription" \in DOMAIN alarm
                     THEN alarm.AlarmDescription ELSE "No description"]

\* the loop over response['MetricAlarms']
RECURSIVE NormalizeAlarms(_)
NormalizeAlarms(metricAlarms) ==
    IF metricAlarms = <<>> THEN <<>>
    ELSE <<AlarmInfo(Head(metricAlarms))>> \o NormalizeAlarms(Tail(metricAlarms))

AlarmLines(info) ==
    << <<"alarm", CwIcon(info.state), info.name>>,
       <<"alarm_detail", info.state, info.metric>> >>

RECURSIVE AlarmOutput(_)
AlarmOutput(infos) ==
    IF infos = <<>> THEN <<>>
    ELSE AlarmLines(Head(infos)) \o AlarmOutput(Tail(infos))

CwHeader == << <<"header", "CLOUDWATCH ALARM STATUS">> >>

CwOutput(outcome, infos) ==
    IF outcome = NoCredentialsError
    THEN << <<"error", "AWS credentials not configured">> >>
    ELSE IF outcome = ClientError
    THEN << <<"error", ClientErrorMessage>> >>
    ELSE AlarmOutput(infos)
         \o (IF infos = <<>>
             THEN << <<"info", "No CloudWatch alarms configured in this region.">> >>
             ELSE <<>>)

CwResult(outcome, resp) ==
    IF outcome \in CaughtErrors THEN <<>>
    ELSE NormalizeAlarms(resp.MetricAlarms)

CheckCloudwatchAlarms ==
    /\ pc = "check_cloudwatch"
    /\ \E outcome \in CaughtErrors \cup {Returned} :
       \E resp \in (IF outcome = Returned THEN CwResponses ELSE {NoResponse}) :
          /\ apiCalls' = Append(apiCalls, "cloudwatch.describe_alarms")
          /\ cwOutcome' = outcome
          /\ response' = resp
          /\ alarms' = CwResult(outcome, resp)
          /\ console' = console \o CwHeader \o CwOutput(outcome, alarms')
    /\ pc' = "summary"
    /\ UNCHANGED <<region, output, ec2Outcome, instances, tally,
                   summary, openCalls, ioError, file>>

(***************************************************************************)
(* generate_summary                                                        *)
(***************************************************************************)
\* sum(1 for r in records if r['state'] == state)
CountState(records, state) ==
    Cardinality({k \in 1..Len(records) : records[k].state = state})

\* instance statistics whose "other" forgets to subtract the stopped ones
InstanceTally_OtherIncludesStopped(insts) ==
    [total_instances |-> Len(insts),
     running |-> CountState(insts, "running"),
     stopped |-> CountState(insts, "stopped"),
     other |-> Len(insts) - CountState(insts, "running")]

\* the instance statistics
InstanceTally(insts) ==
    [total_instances |-> Len(insts),
     running |-> CountState(insts, "running"),
     stopped |-> CountState(insts, "stopped"),
     other |-> Len(insts) - CountState(insts, "running")
                          - CountState(insts, "stopped")]

\* the alarm buckets generate_summary counts, and the state each one counts
AlarmBuckets == [alarming |-> "ALARM", ok_alarms |-> "OK"]

\* alarm statistics that take every alarm that is not in ALARM for an OK one
AlarmTally_OkIsNotAlarm(alms) ==
    [total_alarms |-> Len(alms),
     alarming |-> CountState(alms, AlarmBuckets.alarming),
     ok_alarms |-> Len(alms) - CountState(alms, AlarmBuckets.alarming)]

\* the alarm statistics
AlarmTally(alms) ==
    [total_alarms |-> Len(alms),
     alarming |-> CountState(alms, AlarmBuckets.alarming),
     ok_alarms |-> CountState(alms, AlarmBuckets.ok_alarms)]

\* the four messages of the overall health assessment
ATTENTION == "ATTENTION: There are active alarms that need investigation!"
HEALTHY == "ALL SYSTEMS HEALTHY"
NO_RESOURCES == "No resources found to monitor"
PARTIAL == "Some instances are not running"
Verdicts == {ATTENTION, HEALTHY, NO_RESOURCES, PARTIAL}

\* the chain with its first two tests in the other order
OverallStatus_HealthyFirst(it, at) ==
    IF it.running = it.total_instances /\ it.total_instances > 0 THEN HEALTHY
    ELSE IF at.alarming > 0 THEN ATTENTION
    ELSE IF it.total_instances = 0 /\ at.total_alarms = 0 THEN NO_RESOURCES
    ELSE PARTIAL

\* the chain whose HEALTHY test forgets "total_instances > 0"
OverallStatus_NoPresenceTest(it, at) ==
    IF at.alarming > 0 THEN ATTENTION
    ELSE IF it.running = it.total_instances THEN HEALTHY
    ELSE IF it.total_instances = 0 /\ at.total_alarms = 0 THEN NO_RESOURCES
    ELSE PARTIAL

\* the if / elif chain of the overall health assessment
OverallStatus(it, at) ==
    IF at.alarming > 0 THEN ATTENTION
    ELSE IF it.running = it.total_instances /\ it.total_instances > 0 THEN HEALTHY
    ELSE IF it.total_instances = 0 /\ at.total_alarms = 0 THEN NO_RESOURCES
    ELSE PARTIAL

\* what generate_summary prints
SummaryOutput(it, at) ==
    << <<"header", "SUMMARY">>,
       <<"count", "instances.Total", it.total_instances>>,
       <<"count", "instances.Running", it.running>>,
       <<"count", "instances.Stopped", it.stopped>> >>
    \o (IF it.other > 0 THEN << <<"count", "instances.Other", it.other>> >>
        ELSE <<>>)
    \o << <<"count", "alarms.Total", at.total_alarms>>,
          <<"count", "alarms.OK", at.ok_alarms>>,
          <<"count", "alarms.In Alarm", at.alarming>>,
          <<"verdict", OverallStatus(it, at)>> >>

\* a returned dict whose active_alarms holds the number of all alarms
SummaryDict_ActiveIsTotal(it, at) ==
    [total_instances |-> it.total_instances,
     running_instances |-> it.running,
     stopped_instances |-> it.stopped,
     total_alarms |-> at.total_alarms,
     active_alarms |-> at.total_alarms]

\* the dict generate_summary returns
SummaryDict(it, at) ==
    [total_instances |-> it.total_instances,
     running_instances |-> it.running,
     stopped_instances |-> it.stopped,
     total_alarms |-> at.total_alarms,
     active_alarms |-> at.alarming]

GenerateSummary ==
    /\ pc = "summary"
    /\ LET it == InstanceTally(instances)
           at == AlarmTally(alarms)
       IN /\ tally' = [instances |-> it, alarms |-> at]
          /\ console' = console \o SummaryOutput(it, at)
          /\ summary' = SummaryDict(it, at)
    /\ pc' = IF Truthy(output) THEN "save" ELSE "complete"
    /\ UNCHANGED <<region, output, ec2Outcome, cwOutcome, response,
                   instances, alarms, apiCalls, openCalls, ioError, file>>

(***************************************************************************)
(* save_report                                                             *)
(***************************************************************************)
Report(reg, insts, alms, summ) ==
    [report_metadata |-> [generated_at |-> "now",
                          region |-> reg,
                          tool |-> "AWS Health Checker",
                          author |-> "Marvelous Olabinjo"],
     instances |-> insts,
     alarms |-> alms,
     summary |-> summ]

\* open(filename, 'w') either opens the file or raises OSError; save_report
\* has no handler and neither has main, so the exception ends the run
SaveReport ==
    /\ pc = "save"
    /\ openCalls' = openCalls + 1
    /\ \E writable \in BOOLEAN :
          IF writable
          THEN /\ file' = Report(region, instances, alarms, summary)
               /\ console' = Append(console, <<"saved", output>>)
               /\ ioError' = ioError
               /\ pc' = "complete"
          ELSE /\ ioError' = TRUE
               /\ pc' = "aborted"
               /\ UNCHANGED <<file, console>>
    /\ UNCHANGED <<region, output, ec2Outcome, cwOutcome, response,
                   instances, alarms, tally, summary, apiCalls>>

(***************************************************************************)
(* main                                                                    *)
(***************************************************************************)
MainHeader ==
    << <<"header", "AWS HEALTH CHECKER">>, <<"report_time", "now">> >>

CompleteLine == <<"complete", "Health check complete!">>

Complete ==
    /\ pc = "complete"
    /\ console' = Append(console, CompleteLine)
    /\ pc' = "done"
    /\ UNCHANGED <<region, output, ec2Outcome, cwOutcome, response,
                   instances, alarms, tally, summary, apiCalls, openCalls,
                   ioError, file>>

Init ==
    /\ pc = "check_ec2"
    /\ region \in Regions
    /\ output \in Outputs
    /\ ec2Outcome = NotCalled
    /\ cwOutcome = NotCalled
    /\ response = NoResponse
    /\ instances = <<>>
    /\ alarms = <<>>
    /\ tally = NoTally
    /\ summary = NoSummary
    /\ console = MainHeader \o << <<"region", region>> >>
    /\ apiCalls = <<>>
    /\ openCalls = 0
    /\ ioError = FALSE
    /\ file = NoFile

Next ==
    \/ CheckEc2Instances
    \/ CheckCloudwatchAlarms
    \/ GenerateSummary
    \/ SaveReport
    \/ Complete

Spec == Init /\ [][Next]_vars

(***************************************************************************)
(* Properties                                                              *)
(***************************************************************************)
\* generate_summary has returned
Summarised == pc \in {"save", "complete", "done", "aborted"}

\* the verdict lines on the console
VerdictLines == SelectSeq(console, LAMBDA e : e[1] = "verdict")

\* the verdict generate_summary printed
PrintedVerdict == VerdictLines[1][2]

\* number of records of a list whose state is in a set
CountIn(records, states) ==
    Cardinality({k \in 1..Len(records) : records[k].state \in states})

\* C1: once generate_summary has run, exactly one verdict is on the console
\* and it is the first match of: ATTENTION if some alarm is in state ALARM;
\* HEALTHY if there is an instance and every instance is running;
\* NO_RESOURCES if there are no instances and no alarms; PARTIAL otherwise.
C1_VerdictOrder ==
    Summarised =>
        /\ Len(VerdictLines) = 1
        /\ PrintedVerdict =
             IF \E k \in 1..Len(alarms) : alarms[k].state = "ALARM"
             THEN ATTENTION
             ELSE IF Len(instances) > 0
                     /\ \A k \in 1..Len(instances) : instances[k].state = "running"
             THEN HEALTHY
             ELSE IF Len(instances) = 0 /\ Len(alarms) = 0
             THEN NO_RESOURCES
             ELSE PARTIAL

\* C1 witness: a finished run with a running instance and an alarm in ALARM,
\* whose verdict is ATTENTION
C1_Witness ==
    /\ pc = "done"
    /\ Len(instances) = 1 /\ instances[1].state = "running"
    /\ Len(alarms) = 1 /\ alarms[1].state = "ALARM"
    /\ PrintedVerdict = ATTENTION

\* C2: the instance counts of generate_summary are the numbers of records
\* in state 'running', in state 'stopped' and in any other state, none is
\* negative, and they add up to total_instances.
C2_InstanceCounts ==
    Summarised =>
        LET t == tally.instances IN
        /\ t.total_instances = Len(instances)
        /\ t.running = CountIn(instances, {"running"})
        /\ t.stopped = CountIn(instances, {"stopped"})
        /\ t.other = Len(instances) - CountIn(instances, {"running", "stopped"})
        /\ t.running >= 0 /\ t.stopped >= 0 /\ t.other >= 0
        /\ t.running + t.stopped + t.other = t.total_instances

\* C2 witness: a summary over one stopped instance and one in another state
C2_Witness ==
    /\ Summarised
    /\ tally.instances.stopped = 1
    /\ tally.instances.other = 1
    /\ tally.instances.total_instances = 2

\* C8: whenever the verdict is PARTIAL there is no alarm in state ALARM, at
\* least one instance, and fewer running instances than instances.
C8_PartialMeansInstancesNotRunning ==
    (Summarised /\ PrintedVerdict = PARTIAL) =>
        /\ \A k \in 1..Len(alarms) : alarms[k].state /= "ALARM"
        /\ Len(instances) >= 1
        /\ CountIn(instances, {"running"}) < Len(instances)

\* the alarm buckets of generate_summary that count a given alarm record
BucketsCounting(alarm) ==
    {b \in DOMAIN AlarmBuckets : AlarmBuckets[b] = alarm.state}

SummaryFields ==
    {"total_instances", "running_instances", "stopped_instances",
     "other_instances", "total_alarms", "ok_alarms", "alarming_count",
     "overall_status"}

C5_FetchFailureNeverFatal ==
    /\ (ec2Outcome \in CaughtErrors =>
           /\ instances = <<>>
           /\ \E i \in 1..Len(console) : console[i][1] = "error")
    /\ (cwOutcome \in CaughtErrors =>
           /\ alarms = <<>>
           /\ \E i \in 1..Len(console) : console[i][1] = "error")
    /\ (ec2Outcome \in CaughtErrors /\ pc \notin {"check_ec2", "check_cloudwatch"}
           => cwOutcome /= NotCalled)
    /\ ((ec2Outcome \in CaughtErrors \/ cwOutcome \in CaughtErrors) =>
           /\ pc /= "aborted"
           /\ (pc = "done" =>
                  /\ summary /= NoSummary
                  /\ (Truthy(output) => file /= NoFile)
                  /\ console[Len(console)] = CompleteLine))

\* C6: when the output file cannot be opened the run does not abort: the
\* two checks and the summary have been produced and the run goes on to its
\* normal end.
C6_IOErrorNotFatal ==
    ioError =>
        /\ ec2Outcome /= NotCalled
        /\ cwOutcome /= NotCalled
        /\ summary /= NoSummary
        /\ pc \in {"complete", "done"}

\* the instance name the provider data asks for: the value of the first tag
\* whose key is 'Name', 'Unnamed' without such a tag or without a tag list
ExpectedName(raw) ==
    IF "Tags" \notin DOMAIN raw
       \/ \A i \in 1..Len(raw.Tags) : raw.Tags[i].Key /= "Name"
    THEN "Unnamed"
    ELSE LET first == CHOOSE i \in 1..Len(raw.Tags) :
                         /\ raw.Tags[i].Key = "Name"
                         /\ \A j \in 1..(i - 1) : raw.Tags[j].Key /= "Name"
         IN raw.Tags[first].Value

\* every raw instance and every raw alarm of a returned response has exactly
\* one record, at its place in provider order, with the provider's state
\* string and, for an instance, the expected name (the instance response is
\* there until the alarm check has run, the alarm response from then on)
RecordsMatchProviderData ==
    /\ (pc = "check_cloudwatch" /\ ec2Outcome = Returned) =>
          LET R == response.Reservations
              Before(r) == Sum([k \in 1..(r - 1) |-> Len(R[k].Instances)])
          IN /\ Len(instances) = Before(Len(R) + 1)
             /\ \A r \in 1..Len(R) : \A j \in 1..Len(R[r].Instances) :
                   LET raw == R[r].Instances[j]
                       rec == instances[Before(r) + j]
                   IN /\ rec.instance_id = raw.InstanceId
                      /\ rec.instance_type = raw.InstanceType
                      /\ rec.state = raw.State.Name
                      /\ rec.name = ExpectedName(raw)
    /\ cwOutcome = Returned =>
          LET A == response.MetricAlarms
          IN /\ Len(alarms) = Len(A)
             /\ \A k \in 1..Len(A) :
                   /\ alarms[k].name = A[k].AlarmName
                   /\ alarms[k].state = A[k].StateValue
                   /\ alarms[k].metric = A[k].MetricName

LinesOf(kinds) == {i \in 1..Len(console) : console[i][1] \in kinds}

\* the positions of the console lines that are a given header
HeaderAt(text) ==
    {i \in 1..Len(console) : console[i][1] = "header" /\ console[i][2] = text}

\* C9: a run is one fixed sequence of steps without retries: the instance
\* fetch is made once, all instance output comes before the alarm fetch,
\* which is made once; the summary is computed after both checks from the
\* two lists they returned; the report is written after the summary, at most
\* once and only with an output path; the only provider calls are the two
\* describe calls.
C9_FixedOrder ==
    /\ apiCalls =
         (IF pc = "check_ec2" THEN <<>>
          ELSE IF pc = "check_cloudwatch" THEN <<"ec2.describe_instances">>
          ELSE <<"ec2.describe_instances", "cloudwatch.describe_alarms">>)
    /\ pc = "check_ec2" => LinesOf({"instance", "instance_detail"}) = {}
    /\ pc /= "check_ec2" =>
          /\ Cardinality(LinesOf({"instance"})) = Len(instances)
          /\ Cardinality(HeaderAt("EC2 INSTANCE STATUS")) = 1
    /\ pc \in {"check_ec2", "check_cloudwatch"} =>
          /\ HeaderAt("CLOUDWATCH ALARM STATUS") = {}
          /\ LinesOf({"alarm", "alarm_detail"}) = {}
    /\ \A i \in LinesOf({"instance", "instance_detail"}) :
          \A j \in HeaderAt("CLOUDWATCH ALARM STATUS") \cup LinesOf({"alarm"}) :
             i < j
    /\ ~Summarised =>
          /\ summary = NoSummary
          /\ tally = NoTally
          /\ HeaderAt("SUMMARY") = {}
          /\ openCalls = 0
    /\ Summarised =>
          /\ ec2Outcome /= NotCalled /\ cwOutcome /= NotCalled
          /\ Cardinality(HeaderAt("SUMMARY")) = 1
          /\ \A i \in LinesOf({"instance", "alarm", "error"}) :
                \A j \in HeaderAt("SUMMARY") : i < j
          /\ summary.total_instances = Len(instances)
          /\ summary.running_instances = CountIn(instances, {"running"})
          /\ summary.stopped_instances = CountIn(instances, {"stopped"})
          /\ summary.total_alarms = Len(alarms)
          /\ summary.active_alarms = CountIn(alarms, {"ALARM"})
    /\ openCalls <= 1
    /\ output \in {None, ""} => (openCalls = 0 /\ file = NoFile)
    /\ pc = "done" /\ output \notin {None, ""} => openCalls = 1
    /\ file /= NoFile =>
          /\ openCalls = 1
          /\ file.instances = instances
          /\ file.alarms = alarms
          /\ file.summary = summary

\* C9 witness: a finished run that made both calls, printed an instance and
\* an alarm, and saved its report
C9_Witness ==
    /\ pc = "done"
    /\ Len(instances) = 2 /\ Len(alarms) = 1
    /\ file /= NoFile
    /\ openCalls = 1

\* the verdict read off the instances alone
InstancesOnlyVerdict(emptyCase) ==
    IF Len(instances) > 0
       /\ \A k \in 1..Len(instances) : instances[k].state = "running"
    THEN HEALTHY
    ELSE IF Len(instances) = 0 THEN emptyCase ELSE PARTIAL

\* C10 as stated: with a failed instance fetch the verdict is never HEALTHY;
\* with both fetches failed it is NO_RESOURCES; with only the alarm fetch
\* failed it is HEALTHY when there is an instance and all instances are
\* running, PARTIAL otherwise, and never ATTENTION.
C10_Original ==
    Summarised =>
        /\ ec2Outcome \in CaughtErrors => PrintedVerdict /= HEALTHY
        /\ (ec2Outcome \in CaughtErrors /\ cwOutcome \in CaughtErrors)
              => PrintedVerdict = NO_RESOURCES
        /\ (ec2Outcome = Returned /\ cwOutcome \in CaughtErrors)
              => /\ PrintedVerdict = InstancesOnlyVerdict(PARTIAL)
                 /\ PrintedVerdict /= ATTENTION

\* C10 amended: as stated, except that with only the alarm fetch failed the
\* verdict is HEALTHY when there is an instance and all instances are
\* running, NO_RESOURCES when the instance fetch returned no instance, and
\* PARTIAL otherwise.
C10_FailedFetchVerdict ==
    Summarised =>
        /\ ec2Outcome \in CaughtErrors => PrintedVerdict /= HEALTHY
        /\ (ec2Outcome \in CaughtErrors /\ cwOutcome \in CaughtErrors)
              => PrintedVerdict = NO_RESOURCES
        /\ (ec2Outcome = Returned /\ cwOutcome \in CaughtErrors)
              => /\ PrintedVerdict = InstancesOnlyVerdict(NO_RESOURCES)
                 /\ PrintedVerdict /= ATTENTION

\* C10 witness: a run whose alarm fetch failed and whose instance fetch
\* returned a running and a stopped instance
C10_Witness ==
    /\ Summarised
    /\ cwOutcome = ClientError
    /\ ec2Outcome = Returned
    /\ Len(instances) = 2
    /\ instances[1].state = "running" /\ instances[2].state = "stopped"
    /\ PrintedVerdict = PARTIAL
====
